---- MODULE Spec2Model ----
(***************************************************************************)
(* A model of HasamiShogiGame (src/HasamiShogiGame.py): the 9 x 9 board,   *)
(* the active player, the captured counts, and make_move with everything   *)
(* it calls (is_valid_move, piece_capture, try_capture, get_game_state).   *)
(*                                                                         *)
(* A position is a Python string; it is modelled as the sequence of its    *)
(* characters, <<"a", "1">> for 'a1', so that parsing and formatting are   *)
(* computed as the code computes them.  A call that ends in a Python       *)
(* exception is modelled by its outcome "Raise" together with the part of  *)
(* the object's state that the call had already written.                   *)
(***************************************************************************)
EXTENDS Integers, Sequences, FiniteSets, TLC

VARIABLES
    board_status,     \* self._board_status: row index -> column index -> occupant
    current_player,   \* self._current_player
    captured_pieces,  \* self._captured_pieces
    ret,              \* how the most recent call ended: "True", "False", "None" or an exception's name
    printed,          \* the lines the most recent call printed
    move,             \* the most recent call of make_move or is_valid_move that did not return
                      \* False, with the state it started from
    accepted_by,      \* the colour whose move the most recent call that returned True made
    plan,             \* driver: the moves of the game record still to be replayed
    free,             \* driver: the number of calls made off the record
    direct            \* driver: how many of them called try_capture or piece_capture itself

vars == <<board_status, current_player, captured_pieces, ret, printed, move, accepted_by,
          plan, free, direct>>

-----------------------------------------------------------------------------
(* Characters and the built-ins ord, chr, int, str on them.                *)

LowerCase == <<"a", "b", "c", "d", "e", "f", "g", "h", "i", "j", "k", "l", "m",
               "n", "o", "p", "q", "r", "s", "t", "u", "v", "w", "x", "y", "z">>

DigitChars == <<"0", "1", "2", "3", "4", "5", "6", "7", "8", "9">>

\* The decimal digits outside ASCII: every character other than '0'..'9' for
\* which int does not raise ValueError (Unicode 14.0, 65 runs of ten code
\* points).  Each is one character of a Python string and is written here by
\* the name of its code point.  A row holds the code point of its zero and its
\* ten digits in order, so that the digit at place j has the value j - 1 and
\* the code point zero + j - 1.
OtherDigits ==
    <<
       [zero |-> 1632, chars |-> <<"U+0660", "U+0661", "U+0662", "U+0663", "U+0664", "U+0665", "U+0666", "U+0667", "U+0668", "U+0669">>],
       [zero |-> 1776, chars |-> <<"U+06F0", "U+06F1", "U+06F2", "U+06F3", "U+06F4", "U+06F5", "U+06F6", "U+06F7", "U+06F8", "U+06F9">>],
       [zero |-> 1984, chars |-> <<"U+07C0", "U+07C1", "U+07C2", "U+07C3", "U+07C4", "U+07C5", "U+07C6", "U+07C7", "U+07C8", "U+07C9">>],
       [zero |-> 2406, chars |-> <<"U+0966", "U+0967", "U+0968", "U+0969", "U+096A", "U+096B", "U+096C", "U+096D", "U+096E", "U+096F">>],
       [zero |-> 2534, chars |-> <<"U+09E6", "U+09E7", "U+09E8", "U+09E9", "U+09EA", "U+09EB", "U+09EC", "U+09ED", "U+09EE", "U+09EF">>],
       [zero |-> 2662, chars |-> <<"U+0A66", "U+0A67", "U+0A68", "U+0A69", "U+0A6A", "U+0A6B", "U+0A6C", "U+0A6D", "U+0A6E", "U+0A6F">>],
       [zero |-> 2790, chars |-> <<"U+0AE6", "U+0AE7", "U+0AE8", "U+0AE9", "U+0AEA", "U+0AEB", "U+0AEC", "U+0AED", "U+0AEE", "U+0AEF">>],
       [zero |-> 2918, chars |-> <<"U+0B66", "U+0B67", "U+0B68", "U+0B69", "U+0B6A", "U+0B6B", "U+0B6C", "U+0B6D", "U+0B6E", "U+0B6F">>],
       [zero |-> 3046, chars |-> <<"U+0BE6", "U+0BE7", "U+0BE8", "U+0BE9", "U+0BEA", "U+0BEB", "U+0BEC", "U+0BED", "U+0BEE", "U+0BEF">>],
       [zero |-> 3174, chars |-> <<"U+0C66", "U+0C67", "U+0C68", "U+0C69", "U+0C6A", "U+0C6B", "U+0C6C", "U+0C6D", "U+0C6E", "U+0C6F">>],
       [zero |-> 3302, chars |-> <<"U+0CE6", "U+0CE7", "U+0CE8", "U+0CE9", "U+0CEA", "U+0CEB", "U+0CEC", "U+0CED", "U+0CEE", "U+0CEF">>],
       [zero |-> 3430, chars |-> <<"U+0D66", "U+0D67", "U+0D68", "U+0D69", "U+0D6A", "U+0D6B", "U+0D6C", "U+0D6D", "U+0D6E", "U+0D6F">>],
       [zero |-> 3558, chars |-> <<"U+0DE6", "U+0DE7", "U+0DE8", "U+0DE9", "U+0DEA", "U+0DEB", "U+0DEC", "U+0DED", "U+0DEE", "U+0DEF">>],
       [zero |-> 3664, chars |-> <<"U+0E50", "U+0E51", "U+0E52", "U+0E53", "U+0E54", "U+0E55", "U+0E56", "U+0E57", "U+0E58", "U+0E59">>],
       [zero |-> 3792, chars |-> <<"U+0ED0", "U+0ED1", "U+0ED2", "U+0ED3", "U+0ED4", "U+0ED5", "U+0ED6", "U+0ED7", "U+0ED8", "U+0ED9">>],
       [zero |-> 3872, chars |-> <<"U+0F20", "U+0F21", "U+0F22", "U+0F23", "U+0F24", "U+0F25", "U+0F26", "U+0F27", "U+0F28", "U+0F29">>],
       [zero |-> 4160, chars |-> <<"U+1040", "U+1041", "U+1042", "U+1043", "U+1044", "U+1045", "U+1046", "U+1047", "U+1048", "U+1049">>],
       [zero |-> 4240, chars |-> <<"U+1090", "U+1091", "U+1092", "U+1093", "U+1094", "U+1095", "U+1096", "U+1097", "U+1098", "U+1099">>],
       [zero |-> 6112, chars |-> <<"U+17E0", "U+17E1", "U+17E2", "U+17E3", "U+17E4", "U+17E5", "U+17E6", "U+17E7", "U+17E8", "U+17E9">>],
       [zero |-> 6160, chars |-> <<"U+1810", "U+1811", "U+1812", "U+1813", "U+1814", "U+1815", "U+1816", "U+1817", "U+1818", "U+1819">>],
       [zero |-> 6470, chars |-> <<"U+1946", "U+1947", "U+1948", "U+1949", "U+194A", "U+194B", "U+194C", "U+194D", "U+194E", "U+194F">>],
       [zero |-> 6608, chars |-> <<"U+19D0", "U+19D1", "U+19D2", "U+19D3", "U+19D4", "U+19D5", "U+19D6", "U+19D7", "U+19D8", "U+19D9">>],
       [zero |-> 6784, chars |-> <<"U+1A80", "U+1A81", "U+1A82", "U+1A83", "U+1A84", "U+1A85", "U+1A86", "U+1A87", "U+1A88", "U+1A89">>],
       [zero |-> 6800, chars |-> <<"U+1A90", "U+1A91", "U+1A92", "U+1A93", "U+1A94", "U+1A95", "U+1A96", "U+1A97", "U+1A98", "U+1A99">>],
       [zero |-> 6992, chars |-> <<"U+1B50", "U+1B51", "U+1B52", "U+1B53", "U+1B54", "U+1B55", "U+1B56", "U+1B57", "U+1B58", "U+1B59">>],
       [zero |-> 7088, chars |-> <<"U+1BB0", "U+1BB1", "U+1BB2", "U+1BB3", "U+1BB4", "U+1BB5", "U+1BB6", "U+1BB7", "U+1BB8", "U+1BB9">>],
       [zero |-> 7232, chars |-> <<"U+1C40", "U+1C41", "U+1C42", "U+1C43", "U+1C44", "U+1C45", "U+1C46", "U+1C47", "U+1C48", "U+1C49">>],
       [zero |-> 7248, chars |-> <<"U+1C50", "U+1C51", "U+1C52", "U+1C53", "U+1C54", "U+1C55", "U+1C56", "U+1C57", "U+1C58", "U+1C59">>],
       [zero |-> 42528, chars |-> <<"U+A620", "U+A621", "U+A622", "U+A623", "U+A624", "U+A625", "U+A626", "U+A627", "U+A628", "U+A629">>],
       [zero |-> 43216, chars |-> <<"U+A8D0", "U+A8D1", "U+A8D2", "U+A8D3", "U+A8D4", "U+A8D5", "U+A8D6", "U+A8D7", "U+A8D8", "U+A8D9">>],
       [zero |-> 43264, chars |-> <<"U+A900", "U+A901", "U+A902", "U+A903", "U+A904", "U+A905", "U+A906", "U+A907", "U+A908", "U+A909">>],
       [zero |-> 43472, chars |-> <<"U+A9D0", "U+A9D1", "U+A9D2", "U+A9D3", "U+A9D4", "U+A9D5", "U+A9D6", "U+A9D7", "U+A9D8", "U+A9D9">>],
       [zero |-> 43504, chars |-> <<"U+A9F0", "U+A9F1", "U+A9F2", "U+A9F3", "U+A9F4", "U+A9F5", "U+A9F6", "U+A9F7", "U+A9F8", "U+A9F9">>],
       [zero |-> 43600, chars |-> <<"U+AA50", "U+AA51", "U+AA52", "U+AA53", "U+AA54", "U+AA55", "U+AA56", "U+AA57", "U+AA58", "U+AA59">>],
       [zero |-> 44016, chars |-> <<"U+ABF0", "U+ABF1", "U+ABF2", "U+ABF3", "U+ABF4", "U+ABF5", "U+ABF6", "U+ABF7", "U+ABF8", "U+ABF9">>],
       [zero |-> 65296, chars |-> <<"U+FF10", "U+FF11", "U+FF12", "U+FF13", "U+FF14", "U+FF15", "U+FF16", "U+FF17", "U+FF18", "U+FF19">>],
       [zero |-> 66720, chars |-> <<"U+104A0", "U+104A1", "U+104A2", "U+104A3", "U+104A4", "U+104A5", "U+104A6", "U+104A7", "U+104A8", "U+104A9">>],
       [zero |-> 68912, chars |-> <<"U+10D30", "U+10D31", "U+10D32", "U+10D33", "U+10D34", "U+10D35", "U+10D36", "U+10D37", "U+10D38", "U+10D39">>],
       [zero |-> 69734, chars |-> <<"U+11066", "U+11067", "U+11068", "U+11069", "U+1106A", "U+1106B", "U+1106C", "U+1106D", "U+1106E", "U+1106F">>],
       [zero |-> 69872, chars |-> <<"U+110F0", "U+110F1", "U+110F2", "U+110F3", "U+110F4", "U+110F5", "U+110F6", "U+110F7", "U+110F8", "U+110F9">>],
       [zero |-> 69942, chars |-> <<"U+11136", "U+11137", "U+11138", "U+11139", "U+1113A", "U+1113B", "U+1113C", "U+1113D", "U+1113E", "U+1113F">>],
       [zero |-> 70096, chars |-> <<"U+111D0", "U+111D1", "U+111D2", "U+111D3", "U+111D4", "U+111D5", "U+111D6", "U+111D7", "U+111D8", "U+111D9">>],
       [zero |-> 70384, chars |-> <<"U+112F0", "U+112F1", "U+112F2", "U+112F3", "U+112F4", "U+112F5", "U+112F6", "U+112F7", "U+112F8", "U+112F9">>],
       [zero |-> 70736, chars |-> <<"U+11450", "U+11451", "U+11452", "U+11453", "U+11454", "U+11455", "U+11456", "U+11457", "U+11458", "U+11459">>],
       [zero |-> 70864, chars |-> <<"U+114D0", "U+114D1", "U+114D2", "U+114D3", "U+114D4", "U+114D5", "U+114D6", "U+114D7", "U+114D8", "U+114D9">>],
       [zero |-> 71248, chars |-> <<"U+11650", "U+11651", "U+11652", "U+11653", "U+11654", "U+11655", "U+11656", "U+11657", "U+11658", "U+11659">>],
       [zero |-> 71360, chars |-> <<"U+116C0", "U+116C1", "U+116C2", "U+116C3", "U+116C4", "U+116C5", "U+116C6", "U+116C7", "U+116C8", "U+116C9">>],
       [zero |-> 71472, chars |-> <<"U+11730", "U+11731", "U+11732", "U+11733", "U+11734", "U+11735", "U+11736", "U+11737", "U+11738", "U+11739">>],
       [zero |-> 71904, chars |-> <<"U+118E0", "U+118E1", "U+118E2", "U+118E3", "U+118E4", "U+118E5", "U+118E6", "U+118E7", "U+118E8", "U+118E9">>],
       [zero |-> 72016, chars |-> <<"U+11950", "U+11951", "U+11952", "U+11953", "U+11954", "U+11955", "U+11956", "U+11957", "U+11958", "U+11959">>],
       [zero |-> 72784, chars |-> <<"U+11C50", "U+11C51", "U+11C52", "U+11C53", "U+11C54", "U+11C55", "U+11C56", "U+11C57", "U+11C58", "U+11C59">>],
       [zero |-> 73040, chars |-> <<"U+11D50", "U+11D51", "U+11D52", "U+11D53", "U+11D54", "U+11D55", "U+11D56", "U+11D57", "U+11D58", "U+11D59">>],
       [zero |-> 73120, chars |-> <<"U+11DA0", "U+11DA1", "U+11DA2", "U+11DA3", "U+11DA4", "U+11DA5", "U+11DA6", "U+11DA7", "U+11DA8", "U+11DA9">>],
       [zero |-> 92768, chars |-> <<"U+16A60", "U+16A61", "U+16A62", "U+16A63", "U+16A64", "U+16A65", "U+16A66", "U+16A67", "U+16A68", "U+16A69">>],
       [zero |-> 92864, chars |-> <<"U+16AC0", "U+16AC1", "U+16AC2", "U+16AC3", "U+16AC4", "U+16AC5", "U+16AC6", "U+16AC7", "U+16AC8", "U+16AC9">>],
       [zero |-> 93008, chars |-> <<"U+16B50", "U+16B51", "U+16B52", "U+16B53", "U+16B54", "U+16B55", "U+16B56", "U+16B57", "U+16B58", "U+16B59">>],
       [zero |-> 120782, chars |-> <<"U+1D7CE", "U+1D7CF", "U+1D7D0", "U+1D7D1", "U+1D7D2", "U+1D7D3", "U+1D7D4", "U+1D7D5", "U+1D7D6", "U+1D7D7">>],
       [zero |-> 120792, chars |-> <<"U+1D7D8", "U+1D7D9", "U+1D7DA", "U+1D7DB", "U+1D7DC", "U+1D7DD", "U+1D7DE", "U+1D7DF", "U+1D7E0", "U+1D7E1">>],
       [zero |-> 120802, chars |-> <<"U+1D7E2", "U+1D7E3", "U+1D7E4", "U+1D7E5", "U+1D7E6", "U+1D7E7", "U+1D7E8", "U+1D7E9", "U+1D7EA", "U+1D7EB">>],
       [zero |-> 120812, chars |-> <<"U+1D7EC", "U+1D7ED", "U+1D7EE", "U+1D7EF", "U+1D7F0", "U+1D7F1", "U+1D7F2", "U+1D7F3", "U+1D7F4", "U+1D7F5">>],
       [zero |-> 120822, chars |-> <<"U+1D7F6", "U+1D7F7", "U+1D7F8", "U+1D7F9", "U+1D7FA", "U+1D7FB", "U+1D7FC", "U+1D7FD", "U+1D7FE", "U+1D7FF">>],
       [zero |-> 123200, chars |-> <<"U+1E140", "U+1E141", "U+1E142", "U+1E143", "U+1E144", "U+1E145", "U+1E146", "U+1E147", "U+1E148", "U+1E149">>],
       [zero |-> 123632, chars |-> <<"U+1E2F0", "U+1E2F1", "U+1E2F2", "U+1E2F3", "U+1E2F4", "U+1E2F5", "U+1E2F6", "U+1E2F7", "U+1E2F8", "U+1E2F9">>],
       [zero |-> 125264, chars |-> <<"U+1E950", "U+1E951", "U+1E952", "U+1E953", "U+1E954", "U+1E955", "U+1E956", "U+1E957", "U+1E958", "U+1E959">>],
       [zero |-> 130032, chars |-> <<"U+1FBF0", "U+1FBF1", "U+1FBF2", "U+1FBF3", "U+1FBF4", "U+1FBF5", "U+1FBF6", "U+1FBF7", "U+1FBF8", "U+1FBF9">>] >>

IsLower(c) == \E i \in 1..Len(LowerCase) : LowerCase[i] = c

IsAsciiDigit(c) == \E i \in 1..Len(DigitChars) : DigitChars[i] = c

\* c is one of the digits of the rows.
InRows(rows, c) ==
    \E i \in 1..Len(rows) : \E j \in 1..Len(rows[i].chars) : rows[i].chars[j] = c

IsOtherDigit(c) == InRows(OtherDigits, c)

\* int(c) does not raise ValueError: c is a decimal digit, ASCII or not.
IsDigit(c) == IsAsciiDigit(c) \/ IsOtherDigit(c)

IndexOf(seq, c) == CHOOSE i \in 1..Len(seq) : seq[i] = c

\* The value and the code point of a decimal digit outside ASCII.
RowOf(rows, c) == rows[CHOOSE i \in 1..Len(rows) : InRows(<<rows[i]>>, c)]

DigitIn(row, c) ==
    [value |-> IndexOf(row.chars, c) - 1, code |-> row.zero + IndexOf(row.chars, c) - 1]

OtherDigit(c) == DigitIn(RowOf(OtherDigits, c), c)

\* ord(c): 'a' is 97, '0' is 48.
ord(c) == IF IsLower(c) THEN 96 + IndexOf(LowerCase, c)
          ELSE IF IsAsciiDigit(c) THEN 47 + IndexOf(DigitChars, c)
          ELSE OtherDigit(c).code

\* chr(n) on the code points of the lower-case letters and the digits.
chr(n) == IF n >= 97 /\ n <= 122 THEN LowerCase[n - 96] ELSE DigitChars[n - 47]

\* int(c) for a one-character string c; it raises ValueError when c is no digit,
\* which the callers test with IsDigit before they use the value.
int(c) == IF IsAsciiDigit(c) THEN IndexOf(DigitChars, c) - 1 ELSE OtherDigit(c).value

\* str(n) for 0 <= n <= 99, as a sequence of characters.
str(n) == IF n < 10 THEN <<DigitChars[n + 1]>>
          ELSE <<DigitChars[(n \div 10) + 1], DigitChars[(n % 10) + 1]>>

-----------------------------------------------------------------------------
(* The board.                                                              *)

BoardSize == 9

Index == 0..(BoardSize - 1)

Colors == {"BLACK", "RED"}

Occupants == {"NONE", "BLACK", "RED"}

\* A board set up with the two colours on each other's rows.
InitBoardSwapped == [x \in Index |-> [y \in Index |->
                        IF x = 0 THEN "RED" ELSE IF x = BoardSize - 1 THEN "BLACK" ELSE "NONE"]]

\* __init__: row 'a' is BLACK, row 'i' is RED, the rest is empty.
InitBoard == [x \in Index |-> [y \in Index |->
                 IF x = 0 THEN "BLACK" ELSE IF x = BoardSize - 1 THEN "RED" ELSE "NONE"]]

InitCaptured == [c \in Colors |-> 0]

position_to_coords(position) == <<ord(position[1]) - ord("a"), int(position[2]) - 1>>

\* A conversion that takes the row from y and the column from x.
coords_to_position_transposed(x_coordinate, y_coordinate) ==
    <<chr(ord("a") + y_coordinate)>> \o str(x_coordinate + 1)

coords_to_position(x_coordinate, y_coordinate) ==
    <<chr(ord("a") + x_coordinate)>> \o str(y_coordinate + 1)

get_square_occupant(b, position) ==
    LET c == position_to_coords(position) IN b[c[1]][c[2]]

set_square_status(b, position, piece) ==
    LET c == position_to_coords(position) IN [b EXCEPT ![c[1]][c[2]] = piece]

Pieces(b, color) == Cardinality({c \in Index \X Index : b[c[1]][c[2]] = color})

\* A count that ends the game only when a colour has no piece left.
get_game_state_at_zero(b) ==
    LET black_pieces == Pieces(b, "BLACK")
        red_pieces == Pieces(b, "RED")
    IN  IF black_pieces > 0 /\ red_pieces > 0 THEN "UNFINISHED"
        ELSE IF black_pieces > 0 THEN "BLACK_WON"
        ELSE "RED_WON"

get_game_state(b) ==
    LET black_pieces == Pieces(b, "BLACK")
        red_pieces == Pieces(b, "RED")
    IN  IF black_pieces > 1 /\ red_pieces > 1 THEN "UNFINISHED"
        ELSE IF black_pieces > 1 THEN "BLACK_WON"
        ELSE "RED_WON"

-----------------------------------------------------------------------------
(* is_valid_move.  Its result is a record: ok is the value returned, line  *)
(* the fixed words of the message it printed (the position it names left   *)
(* out), raised the exception it ended in ("" for none).                   *)

characters == {"a", "b", "c", "d", "e", "f", "g", "h", "i"}

Verdict(ok, raised, line) == [ok |-> ok, raised |-> raised, line |-> line]

\* A range that leaves out its first value.
range_from_second(start, stop, step) ==
    IF step = 1 THEN {i \in Index : i > start /\ i < stop}
    ELSE {i \in Index : i < start /\ i > stop}

\* range(start, stop, step) for step 1 or -1, as the set of its values.
range(start, stop, step) ==
    IF step = 1 THEN {i \in Index : i >= start /\ i < stop}
    ELSE {i \in Index : i <= start /\ i > stop}

\* A path check that looks at no square.
path_unchecked(b, string_moved_from, string_moved_to) == FALSE

\* The loops over the squares between origin and destination: TRUE when one of
\* them is occupied.
path_occupied(b, string_moved_from, string_moved_to) ==
    LET from == position_to_coords(string_moved_from)
        to == position_to_coords(string_moved_to)
        x_from == from[1]
        y_from == from[2]
        x_to == to[1]
        y_to == to[2]
    IN  IF x_to = x_from
        THEN LET step == IF y_from > y_to THEN -1 ELSE 1
                 start == IF y_from > y_to THEN y_from - 1 ELSE y_from + 1
             IN  \E i \in range(start, y_to, step) :
                     get_square_occupant(b, coords_to_position(x_to, i)) # "NONE"
        ELSE IF y_to = y_from
        THEN LET step == IF x_from > x_to THEN -1 ELSE 1
                 start == IF x_from > x_to THEN x_from - 1 ELSE x_from + 1
             IN  \E i \in range(start, x_to, step) :
                     get_square_occupant(b, coords_to_position(i, y_to)) # "NONE"
        ELSE FALSE

\* The checks on what the two squares hold, then the path.
occupancy_checks(b, current, string_moved_from, string_moved_to) ==
    LET piece == get_square_occupant(b, string_moved_from)
        destination == get_square_occupant(b, string_moved_to)
    IN  IF destination # "NONE" THEN Verdict(FALSE, "", "piece in destination")
        ELSE IF piece = "NONE" THEN Verdict(FALSE, "", "no piece in source")
        ELSE IF piece # current THEN Verdict(FALSE, "", "does not belong to")
        ELSE IF path_occupied(b, string_moved_from, string_moved_to)
             THEN Verdict(FALSE, "", "is occupied already")
        ELSE Verdict(TRUE, "", "")

is_valid_move(b, current, string_moved_from, string_moved_to) ==
    IF Len(string_moved_to) # 2 THEN Verdict(FALSE, "", "Not valid string_moved_to")
    ELSE IF Len(string_moved_from) # 2 THEN Verdict(FALSE, "", "Not valid string_moved_from")
    ELSE IF string_moved_to[1] \notin characters THEN Verdict(FALSE, "", "Invalid move to row")
    ELSE IF string_moved_from[1] \notin characters THEN Verdict(FALSE, "", "Invalid move from row")
    ELSE IF string_moved_to[2] # string_moved_from[2] /\ string_moved_to[1] # string_moved_from[1]
         THEN Verdict(FALSE, "", "No diagonal movement")
    ELSE IF ~IsDigit(string_moved_to[2]) THEN Verdict(FALSE, "ValueError", "")
    ELSE IF int(string_moved_to[2]) < 1 \/ int(string_moved_to[2]) > 9
         THEN Verdict(FALSE, "", "Invalid column to")
    ELSE IF ~IsDigit(string_moved_from[2]) THEN Verdict(FALSE, "ValueError", "")
    ELSE IF int(string_moved_from[2]) < 1 \/ int(string_moved_from[2]) > 9
         THEN Verdict(FALSE, "", "Invalid column from")
    ELSE occupancy_checks(b, current, string_moved_from, string_moved_to)

-----------------------------------------------------------------------------
(* try_capture and piece_capture.  They work on a record s: the board, the *)
(* captured counts, and raised, the exception that ended the call so far   *)
(* ("" for none, "never" for a call that does not end).                    *)

Credit(captured, enemy, n) == [captured EXCEPT ![enemy] = @ + n]

\* One while loop of try_capture, from square (x, y) in steps of (dx, dy) with
\* captured_piece enemy pieces counted so far.  stop is "NONE" where the loop
\* returns at an empty square, "own" where it breaks at a piece of color with
\* do_capture set, "edge" where its condition fails off the board, and "never"
\* where the square holds a piece that is neither enemy nor color: no branch
\* of the loop body then moves on, and the loop does not end.
RECURSIVE scan(_, _, _, _, _, _, _, _)
scan(b, color, enemy, x_coordinate, y_coordinate, dx, dy, captured_piece) ==
    IF x_coordinate \notin Index \/ y_coordinate \notin Index
    THEN [stop |-> "edge", captured_piece |-> captured_piece]
    ELSE LET piece == get_square_occupant(b, coords_to_position(x_coordinate, y_coordinate))
         IN  IF piece = "NONE" THEN [stop |-> "NONE", captured_piece |-> captured_piece]
             ELSE IF piece = enemy
             THEN scan(b, color, enemy, x_coordinate + dx, y_coordinate + dy, dx, dy,
                       captured_piece + 1)
             ELSE IF piece = color
             THEN [stop |-> "own", captured_piece |-> captured_piece]
             ELSE [stop |-> "never", captured_piece |-> captured_piece]

\* The for loop after a scan: the squares (x + k*dx, y + k*dy), k < n, set empty.
RECURSIVE clear_run(_, _, _, _, _, _)
clear_run(b, x_coordinate, y_coordinate, dx, dy, n) ==
    IF n = 0 THEN b
    ELSE clear_run(set_square_status(b, coords_to_position(x_coordinate, y_coordinate), "NONE"),
                   x_coordinate + dx, y_coordinate + dy, dx, dy, n - 1)

\* A for loop that runs one square further and empties the square the scan
\* stopped at.
after_scan_with_anchor(s, enemy, x_coordinate, y_coordinate, dx, dy, r) ==
    IF r.stop = "NONE" THEN s
    ELSE IF r.stop = "never" THEN [s EXCEPT !.raised = "never"]
    ELSE IF r.stop = "own"
    THEN [s EXCEPT !.board = clear_run(s.board, x_coordinate, y_coordinate, dx, dy,
                                       r.captured_piece + 1),
                   !.captured = Credit(s.captured, enemy, r.captured_piece)]
    ELSE [s EXCEPT !.captured = Credit(s.captured, enemy, r.captured_piece)]

\* What follows the while loop that ended with r in the 'rowminus', 'colminus'
\* and 'colplus' blocks: the return at an empty square, or the for loop under
\* do_capture, and the credit of line 242.  A loop that does not end leaves the
\* call without an end: raised is then "never".
after_scan(s, enemy, x_coordinate, y_coordinate, dx, dy, r) ==
    IF r.stop = "NONE" THEN s
    ELSE IF r.stop = "never" THEN [s EXCEPT !.raised = "never"]
    ELSE IF r.stop = "own"
    THEN [s EXCEPT !.board = clear_run(s.board, x_coordinate, y_coordinate, dx, dy,
                                       r.captured_piece),
                   !.captured = Credit(s.captured, enemy, r.captured_piece)]
    ELSE [s EXCEPT !.captured = Credit(s.captured, enemy, r.captured_piece)]

\* The same in the 'rowplus' block: it saves the start in save_x and then reads
\* save_y, a local that no statement of this call has assigned, so that reaching
\* the for loop raises UnboundLocalError before any square is written.
after_scan_rowplus(s, enemy, r) ==
    IF r.stop = "NONE" THEN s
    ELSE IF r.stop = "never" THEN [s EXCEPT !.raised = "never"]
    ELSE IF r.stop = "own" THEN [s EXCEPT !.raised = "UnboundLocalError"]
    ELSE [s EXCEPT !.captured = Credit(s.captured, enemy, r.captured_piece)]

\* The 'rowminus', 'colminus' and 'colplus' blocks, which differ in (dx, dy) only.
capture_block(s, color, enemy, x_coordinate, y_coordinate, dx, dy) ==
    after_scan(s, enemy, x_coordinate, y_coordinate, dx, dy,
               scan(s.board, color, enemy, x_coordinate, y_coordinate, dx, dy, 0))

capture_rowplus(s, color, enemy, x_coordinate, y_coordinate) ==
    after_scan_rowplus(s, enemy,
                       scan(s.board, color, enemy, x_coordinate, y_coordinate, 0, 1, 0))

try_capture(s, color, enemy, x_coordinate, y_coordinate, direction) ==
    IF direction = "rowminus" THEN capture_block(s, color, enemy, x_coordinate, y_coordinate, 0, -1)
    ELSE IF direction = "rowplus" THEN capture_rowplus(s, color, enemy, x_coordinate, y_coordinate)
    ELSE IF direction = "colminus" THEN capture_block(s, color, enemy, x_coordinate, y_coordinate, -1, 0)
    ELSE IF direction = "colplus" THEN capture_block(s, color, enemy, x_coordinate, y_coordinate, 1, 0)
    ELSE s

Enemy(color) == IF color = "BLACK" THEN "RED" ELSE "BLACK"

\* The table of the elif chain: <<destination, the other neighbour, the corner>>.
CornerCases ==
    << << <<"a", "2">>, <<"b", "1">>, <<"a", "1">> >>,
       << <<"a", "8">>, <<"b", "9">>, <<"a", "9">> >>,
       << <<"i", "2">>, <<"h", "1">>, <<"i", "1">> >>,
       << <<"i", "8">>, <<"h", "9">>, <<"i", "9">> >>,
       << <<"b", "1">>, <<"a", "2">>, <<"a", "1">> >>,
       << <<"b", "9">>, <<"a", "8">>, <<"a", "9">> >>,
       << <<"h", "1">>, <<"i", "2">>, <<"i", "1">> >>,
       << <<"h", "9">>, <<"i", "8">>, <<"i", "9">> >> >>

\* An elif chain over the cases of a table: the first case whose three tests
\* hold empties its corner and credits one capture.
corner_chain(s, string_moved_to, color, enemy, cases) ==
    LET hits == {k \in 1..Len(cases) :
                    /\ string_moved_to = cases[k][1]
                    /\ get_square_occupant(s.board, cases[k][2]) = color
                    /\ get_square_occupant(s.board, cases[k][3]) = enemy}
    IN  IF hits = {} THEN s
        ELSE LET k == CHOOSE i \in hits : \A j \in hits : i <= j
             IN  [s EXCEPT !.board = set_square_status(s.board, cases[k][3], "NONE"),
                           !.captured = Credit(s.captured, enemy, 1)]

\* The elif chain of piece_capture.
corner_capture(s, string_moved_to, color, enemy) ==
    corner_chain(s, string_moved_to, color, enemy, CornerCases)

\* One of the four guarded try_capture calls; a call that raised ends piece_capture.
direction_step(s, guard, color, enemy, x_coordinate, y_coordinate, direction) ==
    IF s.raised # "" \/ ~guard THEN s
    ELSE try_capture(s, color, enemy, x_coordinate, y_coordinate, direction)

piece_capture(s, string_moved_to, color) ==
    LET enemy == Enemy(color)
        c == position_to_coords(string_moved_to)
        x_coordinate == c[1]
        y_coordinate == c[2]
        s0 == corner_capture(s, string_moved_to, color, enemy)
        s1 == direction_step(s0, y_coordinate > 1, color, enemy,
                             x_coordinate, y_coordinate - 1, "rowminus")
        s2 == direction_step(s1, y_coordinate < 8, color, enemy,
                             x_coordinate, y_coordinate + 1, "rowplus")
        s3 == direction_step(s2, x_coordinate > 1, color, enemy,
                             x_coordinate - 1, y_coordinate, "colminus")
    IN  direction_step(s3, x_coordinate < 8, color, enemy,
                       x_coordinate + 1, y_coordinate, "colplus")

-----------------------------------------------------------------------------
(* make_move.  Its result is a record: ret is "True" or "False" for the    *)
(* value returned, or the name of the exception that ended the call;       *)
(* board, current and captured are the object's fields when the call ends. *)

Flip(player) == IF player = "RED" THEN "BLACK" ELSE "RED"

Outcome(b, current, captured, r, lines) ==
    [board |-> b, current |-> current, captured |-> captured, ret |-> r, printed |-> lines]

\* A turn update placed before piece_capture: an exception raised in the
\* capture leaves the turn passed.
update_turn_before_capture(current, s) ==
    Outcome(s.board, Flip(current), s.captured,
            IF s.raised # "" THEN s.raised ELSE "True", <<>>)

\* A turn update that keeps the player to move once the move has ended the game.
update_turn_unless_won(current, s) ==
    IF s.raised # ""
    THEN Outcome(s.board, current, s.captured, s.raised, <<>>)
    ELSE Outcome(s.board,
                 IF get_game_state(s.board) = "UNFINISHED" THEN Flip(current) ELSE current,
                 s.captured, "True", <<>>)

\* Lines 156-160, reached when piece_capture returned; an exception raised in
\* it leaves make_move before the turn is updated.
update_turn(current, s) ==
    IF s.raised # ""
    THEN Outcome(s.board, current, s.captured, s.raised, <<>>)
    ELSE Outcome(s.board, Flip(current), s.captured, "True", <<>>)

\* A relocation after which a piece that has entered between two enemy pieces
\* of its row or column is taken itself.
relocate_exposed(b, captured, string_moved_from, string_moved_to, piece) ==
    LET s == piece_capture([board |-> set_square_status(set_square_status(b, string_moved_to, piece),
                                                        string_moved_from, "NONE"),
                            captured |-> captured, raised |-> ""],
                           string_moved_to, piece)
        c == position_to_coords(string_moved_to)
        held(x, y) == IF x \in Index /\ y \in Index THEN s.board[x][y] ELSE "NONE"
        between == \/ held(c[1], c[2] - 1) = Enemy(piece) /\ held(c[1], c[2] + 1) = Enemy(piece)
                   \/ held(c[1] - 1, c[2]) = Enemy(piece) /\ held(c[1] + 1, c[2]) = Enemy(piece)
    IN  IF between
        THEN [s EXCEPT !.board = set_square_status(s.board, string_moved_to, "NONE"),
                       !.captured = Credit(s.captured, piece, 1)]
        ELSE s

\* A relocation that leaves the piece on its origin as well.
relocate_keeping_origin(b, captured, string_moved_from, string_moved_to, piece) ==
    piece_capture([board |-> set_square_status(b, string_moved_to, piece),
                   captured |-> captured, raised |-> ""],
                  string_moved_to, piece)

\* Lines 151-154: the piece is set on the destination, the origin is emptied
\* and piece_capture runs from the destination.
relocate(b, captured, string_moved_from, string_moved_to, piece) ==
    piece_capture([board |-> set_square_status(set_square_status(b, string_moved_to, piece),
                                               string_moved_from, "NONE"),
                   captured |-> captured, raised |-> ""],
                  string_moved_to, piece)

\* Lines 147-160, with v the result of is_valid_move.
after_validation(b, current, captured, string_moved_from, string_moved_to, v) ==
    IF v.raised # "" THEN Outcome(b, current, captured, v.raised, <<>>)
    ELSE IF ~v.ok
    THEN Outcome(b, current, captured, "False", <<v.line, "illegal move">>)
    ELSE update_turn(current,
                     relocate(b, captured, string_moved_from, string_moved_to,
                              get_square_occupant(b, string_moved_from)))

make_move(b, current, captured, string_moved_from, string_moved_to) ==
    IF get_game_state(b) # "UNFINISHED"
    THEN Outcome(b, current, captured, "False", <<"game already won">>)
    ELSE after_validation(b, current, captured, string_moved_from, string_moved_to,
                          is_valid_move(b, current, string_moved_from, string_moved_to))

-----------------------------------------------------------------------------
(* The driver.  A run replays a prefix of one recorded game, call by call, *)
(* and then makes up to MaxFree further calls with any arguments.          *)

MaxFree == 1

WellFormed == {<<l, d>> : l \in characters, d \in {"1", "2", "3", "4", "5", "6", "7", "8", "9"}}

\* The squares a call off the record may name: the four corners and the squares
\* around them.
Squares == {<<l, d>> : l \in {"a", "b", "h", "i"}, d \in {"1", "2", "8", "9"}}

Malformed == {<<"a">>, <<"a", "1", "0">>, <<"j", "1">>, <<"a", "0">>, <<"a", "x">>}

\* Positions written with a digit outside ASCII.
OtherNamed == {<<"a", "U+0661">>, <<"b", "U+0661">>}

Inputs == Squares \cup Malformed \cup OtherNamed

\* A recorded call <<f1, f2, t1, t2>> is make_move(f1 f2, t1 t2).
From(m) == <<m[1], m[2]>>

To(m) == <<m[3], m[4]>>

\* BLACK takes seven pieces of row 'i' at once and then the piece on b1.
GameBlackWins ==
    <<
       <<"a","2","h","2">>, <<"i","1","b","1">>, <<"h","2","h","1">>, <<"i","9","b","9">>,
       <<"a","8","h","8">>, <<"b","1","c","1">>, <<"h","8","h","9">>, <<"c","1","b","1">>,
       <<"h","1","i","1">>, <<"b","9","c","9">>, <<"h","9","i","9">>, <<"c","9","b","9">>,
       <<"i","1","c","1">> >>

\* RED takes seven pieces of row 'a' at once and then the piece on h1.
GameRedWins ==
    <<
       <<"a","1","h","1">>, <<"i","2","b","2">>, <<"a","9","h","9">>, <<"b","2","b","1">>,
       <<"h","1","g","1">>, <<"i","8","b","8">>, <<"g","1","h","1">>, <<"b","8","b","9">>,
       <<"h","9","g","9">>, <<"b","1","a","1">>, <<"g","9","h","9">>, <<"b","9","a","9">>,
       <<"h","9","g","9">>, <<"a","1","g","1">> >>

\* The corners are taken by moves to h1, a2, i8 and b9.
GameCornersOne ==
    <<
       <<"a","4","h","4">>, <<"i","2","b","2">>, <<"a","5","h","5">>, <<"b","2","b","1">>,
       <<"a","2","i","2">>, <<"i","3","b","3">>, <<"h","4","h","1">>, <<"b","3","b","2">>,
       <<"h","5","h","9">>, <<"b","2","a","2">>, <<"a","6","c","6">>, <<"i","8","b","8">>,
       <<"c","6","d","6">>, <<"b","8","b","7">>, <<"a","8","i","8">>, <<"b","7","b","8">>,
       <<"d","6","e","6">>, <<"b","8","a","8">>, <<"e","6","f","6">>, <<"i","7","b","7">>,
       <<"f","6","e","6">>, <<"b","7","b","9">> >>

\* The corners are taken by moves to i2, b1, h9 and a8.
GameCornersTwo ==
    <<
       <<"a","4","h","4">>, <<"i","2","c","2">>, <<"h","4","h","1">>, <<"c","2","c","1">>,
       <<"a","2","i","2">>, <<"i","3","b","3">>, <<"a","5","h","5">>, <<"b","3","b","2">>,
       <<"a","6","c","6">>, <<"b","2","a","2">>, <<"c","6","d","6">>, <<"c","1","b","1">>,
       <<"d","6","e","6">>, <<"i","8","c","8">>, <<"e","6","f","6">>, <<"c","8","c","9">>,
       <<"a","8","i","8">>, <<"i","7","b","7">>, <<"h","5","h","9">>, <<"b","7","b","9">>,
       <<"f","6","e","6">>, <<"c","9","c","8">>, <<"e","6","f","6">>, <<"c","8","a","8">> >>

\* BLACK enters between two RED pieces, completes a chain between two RED
\* pieces, takes in two directions at once, and then closes a flank toward the
\* higher columns.
GameFlanks ==
    <<
       <<"a","1","b","1">>, <<"i","4","e","4">>, <<"b","1","c","1">>, <<"i","6","e","6">>,
       <<"a","5","e","5">>, <<"e","6","e","7">>, <<"a","6","e","6">>, <<"i","8","f","8">>,
       <<"a","9","g","9">>, <<"i","1","h","1">>, <<"g","9","g","8">>, <<"h","1","g","1">>,
       <<"a","8","e","8">>, <<"g","1","f","1">>, <<"a","3","e","3">>, <<"a","2","b","2">>,
       <<"f","1","g","1">> >>

\* BLACK takes in two directions at once while a RED piece stands between the
\* destination and the edge in a third.
GameAccumulates ==
    <<
       <<"a","1","b","1">>, <<"i","4","e","4">>, <<"b","1","c","1">>, <<"i","6","e","6">>,
       <<"a","5","e","5">>, <<"e","6","e","7">>, <<"a","6","e","6">>, <<"i","8","f","8">>,
       <<"a","9","g","9">>, <<"i","1","h","1">>, <<"g","9","g","8">>, <<"i","9","e","9">>,
       <<"a","8","e","8">> >>

\* BLACK takes seven pieces of row 'i' at once; its move b3-a3 then takes the
\* piece on a2 and stops at the piece on a4 toward the higher columns.
GameAbortedWin ==
    <<
       <<"a","2","h","2">>, <<"i","1","b","1">>, <<"h","2","h","1">>, <<"i","9","b","9">>,
       <<"a","8","h","8">>, <<"b","1","c","1">>, <<"h","8","h","9">>, <<"c","1","b","1">>,
       <<"h","1","i","1">>, <<"b","9","c","9">>, <<"h","9","i","9">>, <<"b","1","b","2">>,
       <<"a","3","b","3">>, <<"b","2","a","2">>, <<"b","3","a","3">> >>

\* RED closes the corner a1 from a2 and b1, naming the move to b1 with a digit
\* outside ASCII.
GameOtherDigit ==
    <<
       <<"a","4","h","4">>, <<"i","2","c","2">>, <<"h","4","h","1">>, <<"c","2","c","1">>,
       <<"a","2","i","2">>, <<"i","3","b","3">>, <<"a","5","h","5">>, <<"b","3","b","2">>,
       <<"a","6","c","6">>, <<"b","2","a","2">>, <<"c","6","d","6">>,
       <<"c","U+0661","b","U+0661">> >>

\* Moves along the columns 3, 8, 5 and 6, each named with a digit outside
\* ASCII of another run, and a move whose two names spell the column 4 with
\* digits of two runs.
GameOtherColumns ==
    <<
       <<"a","U+0663","c","U+0663">>, <<"i","U+06F8","g","U+06F8">>,
       <<"a","U+1D7D3","d","U+1D7D3">>, <<"i","U+FF16","f","U+FF16">>,
       <<"a","U+0664","b","U+096A">> >>

Games == {GameBlackWins, GameRedWins, GameCornersOne, GameCornersTwo, GameFlanks,
          GameAccumulates, GameAbortedWin, GameOtherDigit, GameOtherColumns}

NoMove == [from |-> <<>>, to |-> <<>>, color |-> "NONE",
           board |-> InitBoard, captured |-> InitCaptured]

Init ==
    /\ board_status = InitBoard
    /\ current_player = "BLACK"
    /\ captured_pieces = InitCaptured
    /\ ret = "none"
    /\ printed = <<>>
    /\ move = NoMove
    /\ accepted_by = "NONE"
    /\ plan \in Games
    /\ free = 0
    /\ direct = 0

\* The object's fields and the record of the call, after a call that ended as r.
Commit(r, string_moved_from, string_moved_to) ==
    /\ board_status' = r.board
    /\ current_player' = r.current
    /\ captured_pieces' = r.captured
    /\ ret' = r.ret
    /\ printed' = r.printed
    /\ move' = IF r.ret # "False"
               THEN [from |-> string_moved_from, to |-> string_moved_to,
                     color |-> current_player, board |-> board_status,
                     captured |-> captured_pieces]
               ELSE move
    /\ accepted_by' = IF r.ret = "True" THEN current_player ELSE accepted_by

\* One call make_move(string_moved_from, string_moved_to) on the object.
Call(string_moved_from, string_moved_to) ==
    Commit(make_move(board_status, current_player, captured_pieces,
                     string_moved_from, string_moved_to),
           string_moved_from, string_moved_to)

Replay ==
    /\ plan # <<>>
    /\ free = 0
    /\ Call(From(Head(plan)), To(Head(plan)))
    /\ plan' = Tail(plan)
    /\ UNCHANGED <<free, direct>>

FreeCall ==
    /\ free < MaxFree
    /\ \E string_moved_from \in Inputs, string_moved_to \in Inputs :
           Call(string_moved_from, string_moved_to)
    /\ free' = free + 1
    /\ plan' = <<>>
    /\ UNCHANGED direct

\* try_capture and piece_capture are methods a caller can reach as well as
\* make_move.  A call off the record may call them with the names of the two
\* colours, the four directions, the squares of Squares and OtherNamed and the
\* coordinates of the squares of Squares.  Coordinates outside 0..8 and
\* strings that name no square are left out: with them the code indexes the
\* board lists from their end or past it.
DirectionNames == {"rowminus", "rowplus", "colminus", "colplus"}

DirectCoords == {position_to_coords(p) : p \in Squares}

\* The object's fields and the record of a call of try_capture or piece_capture
\* that ended as s.  Both methods return None and print nothing; neither
\* assigns _current_player.  A call that does not end has no state after it.
Direct(s) ==
    /\ s.raised # "never"
    /\ board_status' = s.board
    /\ captured_pieces' = s.captured
    /\ ret' = IF s.raised # "" THEN s.raised ELSE "None"
    /\ printed' = <<>>
    /\ UNCHANGED <<current_player, move, accepted_by>>

\* One call try_capture(color, enemy, x, y, direction) on the object.
DirectTryCapture ==
    /\ free < MaxFree
    /\ \E color \in Colors, enemy \in Colors, c \in DirectCoords, direction \in DirectionNames :
           Direct(try_capture([board |-> board_status, captured |-> captured_pieces,
                               raised |-> ""],
                              color, enemy, c[1], c[2], direction))
    /\ free' = free + 1
    /\ plan' = <<>>
    /\ direct' = direct + 1

\* One call piece_capture(string_moved_to, color) on the object.
DirectPieceCapture ==
    /\ free < MaxFree
    /\ \E string_moved_to \in Squares \cup OtherNamed, color \in Colors :
           Direct(piece_capture([board |-> board_status, captured |-> captured_pieces,
                                 raised |-> ""],
                                string_moved_to, color))
    /\ free' = free + 1
    /\ plan' = <<>>
    /\ direct' = direct + 1

Next == Replay \/ FreeCall \/ DirectTryCapture \/ DirectPieceCapture

Spec == Init /\ [][Next]_vars

-----------------------------------------------------------------------------
(* A second driver, for is_valid_move called on its own.  A run replays a   *)
(* prefix of one recorded game and then makes one call                     *)
(* is_valid_move(from, to) with any two arguments; ret, printed and move   *)
(* record that call, and free, which counts the calls off the record,      *)
(* becomes 1.                                                              *)

Arguments ==
    WellFormed \cup Malformed \cup OtherNamed
        \cup {<<"c", "U+0661">>, <<"b", "U+FF11">>, <<"a", "U+0660">>,
              <<"a", "U+0663">>, <<"d", "U+0663">>, <<"i", "U+0668">>, <<"a", "U+06F1">>,
              <<"e", "U+1FBF7">>}

\* The record of a call is_valid_move(from, to) that ended as v.
Validated(v, string_moved_from, string_moved_to) ==
    /\ ret' = IF v.raised # "" THEN v.raised ELSE IF v.ok THEN "True" ELSE "False"
    /\ printed' = IF v.line = "" THEN <<>> ELSE <<v.line>>
    /\ move' = [from |-> string_moved_from, to |-> string_moved_to,
                color |-> current_player, board |-> board_status,
                captured |-> captured_pieces]
    /\ UNCHANGED <<board_status, current_player, captured_pieces, accepted_by, plan>>

\* One call is_valid_move(string_moved_from, string_moved_to) on the object;
\* the method assigns no field.
Validate ==
    /\ free = 0
    /\ free' = 1
    /\ UNCHANGED direct
    /\ \E string_moved_from \in Arguments, string_moved_to \in Arguments :
           Validated(is_valid_move(board_status, current_player,
                                   string_moved_from, string_moved_to),
                     string_moved_from, string_moved_to)

NextValid == Replay \/ Validate

SpecValid == Init /\ [][NextValid]_vars

-----------------------------------------------------------------------------
(* Properties.  In an action formula the unprimed variables are the object *)
(* before a call and the primed ones the object after it; ret' tells how   *)
(* the call ended and, unless it returned False, move' holds its           *)
(* arguments.  The claims speak of calls of make_move: a step that leaves  *)
(* direct as it was is such a call, and a state in which direct is 0 has   *)
(* been reached by such calls alone.                                       *)

\* The step is no call of try_capture or piece_capture itself.
ByMakeMove == direct' = direct

\* What a square holds, "OFF" for a square off the board.
Cell(b, x, y) == IF x \in Index /\ y \in Index THEN b[x][y] ELSE "OFF"

Directions == {<<0, -1>>, <<0, 1>>, <<-1, 0>>, <<1, 0>>}

\* The longest run a flank can hold: the line less the two pieces around it.
RunLengths == 1..(BoardSize - 2)

\* On board b, the n squares after square c in direction d hold color's enemy
\* and the square after them holds color.
Flank(b, c, d, color, n) ==
    /\ \A k \in 1..n : Cell(b, c[1] + k * d[1], c[2] + k * d[2]) = Enemy(color)
    /\ Cell(b, c[1] + (n + 1) * d[1], c[2] + (n + 1) * d[2]) = color

\* C1: in every state reached by calls of make_move alone, for each colour the
\* captured count equals 9 minus the number of pieces of that colour on the
\* board.
C1_CountsMatchBoard ==
    direct = 0
        => \A c \in Colors : captured_pieces[c] = BoardSize - Pieces(board_status, c)

\* C2: a call that passes validation and places the mover's piece next to a
\* gap-free run of 1..7 enemy pieces, in any of the four directions, with a piece
\* of the mover's colour right after the run, returns True, leaves the squares of
\* the run empty and the two pieces around it in place, and raises the enemy's
\* captured count by at least the run's length.
C2_FlankCaptured ==
    [][\A d \in Directions, n \in RunLengths :
          (/\ ByMakeMove /\ ret' # "False"
           /\ move'.from \in WellFormed /\ move'.to \in WellFormed
           /\ Flank(board_status, position_to_coords(move'.to), d, current_player, n))
          => LET c == position_to_coords(move'.to)
                 enemy == Enemy(current_player)
             IN  /\ ret' = "True"
                 /\ \A k \in 1..n : Cell(board_status', c[1] + k * d[1], c[2] + k * d[2]) = "NONE"
                 /\ Cell(board_status', c[1], c[2]) = current_player
                 /\ Cell(board_status', c[1] + (n + 1) * d[1], c[2] + (n + 1) * d[2])
                        = current_player
                 /\ captured_pieces'[enemy] >= captured_pieces[enemy] + n]_vars

\* C3: no call with two well-formed positions stops partway: the most recent
\* call either returned True or False, or its arguments were not well formed.
C3_NoAbortedMove ==
    (direct = 0 /\ ret \notin {"none", "True", "False"})
        => ~(move.from \in WellFormed /\ move.to \in WellFormed)

\* The other colour.
Opponent(color) == CHOOSE o \in Colors : o # color

Coords == Index \X Index

At(b, c) == Cell(b, c[1], c[2])

\* The call's two arguments are well-formed positions.
Named(m) == m.from \in WellFormed /\ m.to \in WellFormed

\* p is a letter a..i followed by a character that int turns into 1..9.
NamesSquare(p) ==
    /\ Len(p) = 2 /\ p[1] \in characters
    /\ IsDigit(p[2]) /\ int(p[2]) \in 1..BoardSize

\* The call's two arguments name squares of the board, well formed or not.
NamesSquares(m) == NamesSquare(m.from) /\ NamesSquare(m.to)

Origin(m) == position_to_coords(m.from)

Dest(m) == position_to_coords(m.to)

\* c lies on the straight line from a to e, strictly between them.
StrictlyBetween(a, c, e) ==
    \/ /\ a[1] = e[1] /\ c[1] = a[1]
       /\ (a[2] < c[2] /\ c[2] < e[2]) \/ (e[2] < c[2] /\ c[2] < a[2])
    \/ /\ a[2] = e[2] /\ c[2] = a[2]
       /\ (a[1] < c[1] /\ c[1] < e[1]) \/ (e[1] < c[1] /\ c[1] < a[1])

\* A move of the rook kind it is not: from a to e on board b with color to move.
Illegal(b, color, a, e) ==
    \/ At(b, e) # "NONE"
    \/ a[1] # e[1] /\ a[2] # e[2]
    \/ a = e
    \/ At(b, a) # color
    \/ \E c \in Coords : StrictlyBetween(a, c, e) /\ At(b, c) # "NONE"

\* Every own piece of color on b, the one on square a excepted, is on b2 too.
OwnKept(b, b2, color, a) ==
    \A c \in Coords : (At(b, c) = color /\ c # a) => At(b2, c) = color

\* C4: a call that returns False leaves board, captured counts and the player
\* to move as they were, and no call onto an occupied square, along a diagonal,
\* of zero length, over an occupied square or with a piece that is not the
\* active player's ends otherwise than by returning False.
C4_IllegalRejected ==
    [][/\ ret' = "False" => UNCHANGED <<board_status, captured_pieces, current_player>>
       /\ (ByMakeMove /\ ret' # "False" /\ NamesSquares(move'))
              => ~Illegal(board_status, current_player, Origin(move'), Dest(move'))]_vars

\* A call over an occupied square has just been rejected.
C4_Witness ==
    ret = "False" /\ printed = <<"is occupied already", "illegal move">>

Won(color) == IF color = "BLACK" THEN "BLACK_WON" ELSE "RED_WON"

\* C5: after an accepted move that leaves a colour with one piece or none the
\* game state names the other colour the winner, and from a state that names a
\* winner every call returns False and changes nothing.
C5_WinAtOnePiece ==
    [][/\ ret' = "True"
              => \A c \in Colors :
                    Pieces(board_status', c) <= 1
                        => get_game_state(board_status') = Won(Opponent(c))
       /\ (ByMakeMove /\ \E c \in Colors : Pieces(board_status, c) <= 1)
              => /\ ret' = "False"
                 /\ UNCHANGED <<board_status, captured_pieces, current_player>>
                 /\ get_game_state(board_status') \in {"BLACK_WON", "RED_WON"}]_vars

\* A colour is down to one piece, the game state names the winner, and a call
\* made after that has been rejected.
C5_Witness ==
    /\ Pieces(board_status, "RED") = 1
    /\ get_game_state(board_status) = "BLACK_WON"
    /\ ret = "False"
    /\ printed = <<"game already won">>

\* C6: BLACK makes the first accepted move; an accepted move that does not end
\* the game passes the turn to the other colour; a rejected call leaves the
\* turn; and every accepted move is made by the colour other than the one that
\* made the accepted move before it.
C6_TurnsAlternate ==
    [][/\ (ret' = "True" /\ get_game_state(board_status') = "UNFINISHED")
              => current_player' = Opponent(current_player)
       /\ ret' = "False" => current_player' = current_player
       /\ ret' = "True"
              => /\ At(board_status, Origin(move')) = current_player
                 /\ current_player = IF accepted_by = "NONE" THEN "BLACK"
                                     ELSE Opponent(accepted_by)]_vars

\* RED has just made an accepted move after an accepted move of BLACK, and
\* BLACK is to move.
C6_Witness ==
    /\ ret = "True"
    /\ accepted_by = "RED"
    /\ move.color = "RED"
    /\ current_player = "BLACK"
    /\ get_game_state(board_status) = "UNFINISHED"

\* C7 as stated: the move that ends the game leaves the player to move as it
\* was.
C7_TurnKeptAtEnd ==
    [][(ret' = "True" /\ get_game_state(board_status') # "UNFINISHED")
           => current_player' = current_player]_vars

\* C7: the move that ends the game passes the turn like any other accepted
\* move, so that the player to move is then the opponent of the winner.
C7_TurnPassesAtEnd ==
    [][(ret' = "True" /\ get_game_state(board_status') # "UNFINISHED")
           => /\ current_player' = Opponent(current_player)
              /\ get_game_state(board_status') = Won(current_player)]_vars

\* BLACK has just made the move that won the game, and RED is the player to
\* move.
C7_Witness ==
    /\ ret = "True"
    /\ move.color = "BLACK"
    /\ get_game_state(board_status) = "BLACK_WON"
    /\ current_player = "RED"

\* C8: an accepted move leaves the number of the mover's pieces as it was and
\* every piece of the mover where it was, the moved one excepted; the number of
\* the opponent's pieces does not grow.
C8_OnlyOpponentLoses ==
    [][ret' = "True"
           => /\ Pieces(board_status', current_player) = Pieces(board_status, current_player)
              /\ OwnKept(board_status, board_status', current_player, Origin(move'))
              /\ Pieces(board_status', Opponent(current_player))
                     <= Pieces(board_status, Opponent(current_player))]_vars

\* An accepted move has just taken pieces of the opponent.
C8_Witness ==
    /\ ret = "True"
    /\ Pieces(board_status, Opponent(move.color)) < Pieces(move.board, Opponent(move.color))

Last == BoardSize - 1

Corners == {<<0, 0>>, <<0, Last>>, <<Last, 0>>, <<Last, Last>>}

Adjacent(c) ==
    {n \in Coords : (n[1] = c[1] /\ (n[2] = c[2] + 1 \/ n[2] = c[2] - 1))
                    \/ (n[2] = c[2] /\ (n[1] = c[1] + 1 \/ n[1] = c[1] - 1))}

\* On board b a move of color to square d closes corner c, whose other
\* neighbour o holds a piece of color already.
ClosesCorner(b, color, c, d, o) ==
    /\ c \in Corners /\ d \in Adjacent(c) /\ o \in Adjacent(c) /\ o # d
    /\ At(b, c) = Opponent(color)
    /\ At(b, o) = color

\* C9: an accepted move onto one of the two squares next to a corner that holds
\* an enemy piece, the other of the two holding a piece of the mover, empties
\* the corner and credits at least one capture, and exactly one when no other
\* square next to the destination holds an enemy piece.
C9_CornerCaptured ==
    [][ret' = "True"
           => \A c \in Corners, o \in Coords :
                 ClosesCorner(board_status, current_player, c, Dest(move'), o)
                     => /\ At(board_status', c) = "NONE"
                        /\ captured_pieces'[Opponent(current_player)]
                               >= captured_pieces[Opponent(current_player)] + 1
                        /\ (\A n \in Adjacent(Dest(move')) \ {c} :
                                At(board_status, n) # Opponent(current_player))
                               => /\ captured_pieces'[Opponent(current_player)]
                                         = captured_pieces[Opponent(current_player)] + 1
                                  /\ Pieces(board_status', Opponent(current_player))
                                         = Pieces(board_status, Opponent(current_player)) - 1]_vars

Axes == {<<0, 1>>, <<1, 0>>}

\* On board b square d has an enemy piece of color on both sides along one axis.
Sandwiched(b, color, d) ==
    \E a \in Axes :
        /\ Cell(b, d[1] - a[1], d[2] - a[2]) = Opponent(color)
        /\ Cell(b, d[1] + a[1], d[2] + a[2]) = Opponent(color)

\* On board b a piece of color on square d would make, with the pieces of color
\* next to it along one axis, a line of two or more that has an enemy piece at
\* both ends.
ChainFlanked(b, color, d) ==
    \E a \in Axes, i \in 0..Last, j \in 0..Last :
        /\ i + j >= 1
        /\ \A k \in 1..i : Cell(b, d[1] - k * a[1], d[2] - k * a[2]) = color
        /\ \A k \in 1..j : Cell(b, d[1] + k * a[1], d[2] + k * a[2]) = color
        /\ Cell(b, d[1] - (i + 1) * a[1], d[2] - (i + 1) * a[2]) = Opponent(color)
        /\ Cell(b, d[1] + (j + 1) * a[1], d[2] + (j + 1) * a[2]) = Opponent(color)

\* The board with the piece on square a taken off.
Lifted(b, a) == [b EXCEPT ![a[1]][a[2]] = "NONE"]

\* C10: an accepted move leaves the moved piece on its destination; when the
\* destination lies between two enemy pieces, or the move completes a line of
\* the mover's pieces that has an enemy piece at both ends, no piece of the
\* mover is taken and the count of the mover's captured pieces stays.
C10_MoverNotTaken ==
    [][ret' = "True"
           => /\ At(board_status', Dest(move')) = current_player
              /\ (\/ Sandwiched(board_status, current_player, Dest(move'))
                  \/ ChainFlanked(Lifted(board_status, Origin(move')), current_player,
                                  Dest(move')))
                     => /\ OwnKept(board_status, board_status', current_player, Origin(move'))
                        /\ Pieces(board_status', current_player)
                               = Pieces(board_status, current_player)
                        /\ captured_pieces'[current_player] = captured_pieces[current_player]]_vars

\* An accepted move has just put a piece between two enemy pieces, and the
\* piece is on its destination.
C10_Witness ==
    /\ ret = "True" /\ Named(move)
    /\ Sandwiched(move.board, move.color, Dest(move))
    /\ At(board_status, Dest(move)) = move.color

\* C11 (the step that changes free is the call of is_valid_move): for two
\* well-formed positions is_valid_move returns True exactly when
\* origin and destination differ and share a row or a column, the origin holds
\* a piece of the player to move, the destination is empty and so is every
\* square strictly between them; and the call leaves board, counts and player
\* to move as they were.
C11_RookMovesOnly ==
    [][free' # free
           => /\ Named(move')
                     => (ret' = "True"
                             <=> ~Illegal(board_status, current_player,
                                          Origin(move'), Dest(move')))
              /\ UNCHANGED <<board_status, captured_pieces, current_player>>]_vars

\* is_valid_move has just returned True for a move over three or more empty
\* squares.
C11_Witness ==
    /\ free = 1 /\ ret = "True" /\ Named(move)
    /\ Cardinality({c \in Coords : StrictlyBetween(Origin(move), c, Dest(move))}) >= 3

\* C12: a call make_move with an argument that is not a letter a..i followed
\* by a digit 1..9 returns False and leaves board, counts and player to move as
\* they were; so a call that ends otherwise than by returning False has two
\* well-formed arguments.
C12_MalformedRejected ==
    [][/\ (ByMakeMove /\ ret' # "False") => Named(move')
       /\ ret' = "False" => UNCHANGED <<board_status, captured_pieces, current_player>>]_vars

\* C13: before any call the squares of row 'a' hold the nine BLACK pieces, the
\* squares of row 'i' the nine RED pieces, every other square is empty, both
\* captured counts are 0, the game is UNFINISHED and BLACK is to move.
C13_NewGame ==
    ret = "none"
        => /\ \A p \in WellFormed :
                 get_square_occupant(board_status, p)
                     = IF p[1] = "a" THEN "BLACK" ELSE IF p[1] = "i" THEN "RED" ELSE "NONE"
           /\ Pieces(board_status, "BLACK") = 9
           /\ Pieces(board_status, "RED") = 9
           /\ \A c \in Colors : captured_pieces[c] = 0
           /\ get_game_state(board_status) = "UNFINISHED"
           /\ current_player = "BLACK"

\* A new game on which no call has been made.
C13_Witness ==
    /\ ret = "none"
    /\ get_square_occupant(board_status, <<"a", "1">>) = "BLACK"
    /\ get_square_occupant(board_status, <<"i", "9">>) = "RED"
    /\ get_square_occupant(board_status, <<"e", "5">>) = "NONE"

\* C14: for each of the 81 positions a call can name, position_to_coords gives
\* a pair in {0..8} x {0..8} from which coords_to_position gives the position
\* back; two different positions have different pairs; and for each pair of
\* {0..8} x {0..8}, taken row by row with the rows of the positions named,
\* coords_to_position gives a position from which position_to_coords gives the
\* pair back.
C14_RoundTrip ==
    Named(move)
        => /\ \A p \in {move.from, move.to} :
                 /\ position_to_coords(p) \in Coords
                 /\ coords_to_position(position_to_coords(p)[1], position_to_coords(p)[2]) = p
           /\ position_to_coords(move.from) = position_to_coords(move.to) => move.from = move.to
           /\ \A y \in Index :
                 /\ coords_to_position(Dest(move)[1], y) \in WellFormed
                 /\ position_to_coords(coords_to_position(Dest(move)[1], y)) = <<Dest(move)[1], y>>

\* A call has named the positions a1 and i9, whose pairs are (0, 0) and (8, 8).
C14_Witness ==
    /\ free = 1
    /\ move.from = <<"a", "1">> /\ move.to = <<"i", "9">>
    /\ position_to_coords(move.from) = <<0, 0>>
    /\ position_to_coords(move.to) = <<8, 8>>

\* On board b the line from square c in direction d closes no flank for color:
\* after any number of enemy pieces, none included, it comes to an empty square
\* or to the edge of the board.
Open(b, c, d, color) ==
    \E n \in 0..Last :
        /\ \A k \in 1..n : Cell(b, c[1] + k * d[1], c[2] + k * d[2]) = Opponent(color)
        /\ Cell(b, c[1] + (n + 1) * d[1], c[2] + (n + 1) * d[2]) \in {"NONE", "OFF"}

\* On board b a move of color to square d closes some corner.
ClosesSomeCorner(b, color, d) ==
    \E c \in Corners, o \in Coords : ClosesCorner(b, color, c, d, o)

\* C15: after an accepted move, a direction from the destination in which the
\* line comes to an empty square or to the edge before any piece of the mover
\* changes no square of that line (a corner the move closes excepted), and a
\* move for which this is so in all four directions, and which closes no
\* corner, changes neither captured count.
C15_OpenLineNoCapture ==
    [][ret' = "True"
           => LET b == Lifted(board_status, Origin(move'))
                  c == Dest(move')
              IN  /\ \A d \in Directions :
                        Open(b, c, d, current_player)
                            => \A k \in 1..Last :
                                  LET x == c[1] + k * d[1]
                                      y == c[2] + k * d[2]
                                  IN  (/\ x \in Index /\ y \in Index
                                       /\ ~\E o \in Coords :
                                              ClosesCorner(b, current_player, <<x, y>>, c, o))
                                          => board_status'[x][y] = b[x][y]
                  /\ (/\ \A d \in Directions : Open(b, c, d, current_player)
                      /\ ~ClosesSomeCorner(b, current_player, c))
                         => captured_pieces' = captured_pieces]_vars

\* The length of the flank that a piece of color on square c closes in
\* direction d on board b, 0 when it closes none.
FlankLength(b, c, d, color) ==
    IF \E n \in RunLengths : Flank(b, c, d, color, n)
    THEN CHOOSE n \in RunLengths : Flank(b, c, d, color, n)
    ELSE 0

\* 1 when a move of color to square c closes a corner on board b, else 0.
CornerCount(b, c, color) == IF ClosesSomeCorner(b, color, c) THEN 1 ELSE 0

\* C16: an accepted move that closes a flank in two or more directions, or a
\* flank and a corner, empties every square of those flanks and the corner, and
\* raises the enemy's captured count by the lengths of the flanks added up,
\* plus 1 for the corner.
C16_CapturesAccumulate ==
    [][ret' = "True"
           => LET b == Lifted(board_status, Origin(move'))
                  c == Dest(move')
                  m == current_player
                  closed == {d \in Directions : FlankLength(b, c, d, m) > 0}
                  total == FlankLength(b, c, <<0, -1>>, m) + FlankLength(b, c, <<0, 1>>, m)
                           + FlankLength(b, c, <<-1, 0>>, m) + FlankLength(b, c, <<1, 0>>, m)
                           + CornerCount(b, c, m)
              IN  Cardinality(closed) + CornerCount(b, c, m) >= 2
                      => /\ \A d \in closed : \A k \in 1..FlankLength(b, c, d, m) :
                               Cell(board_status', c[1] + k * d[1], c[2] + k * d[2]) = "NONE"
                         /\ \A q \in Corners :
                               (\E o \in Coords : ClosesCorner(b, m, q, c, o))
                                   => At(board_status', q) = "NONE"
                         /\ captured_pieces'[Opponent(m)]
                                = captured_pieces[Opponent(m)] + total]_vars

\* C17: in a game of make_move calls alone, after every call at least one
\* colour has two or more pieces on the board, and a call after which the game
\* state first names a colour the winner is an accepted move of that colour.
C17_WinByAcceptedMove ==
    [][direct' = 0
           => /\ \E c \in Colors : Pieces(board_status', c) >= 2
              /\ \A c \in Colors :
                    (/\ get_game_state(board_status) = "UNFINISHED"
                     /\ get_game_state(board_status') = Won(c))
                        => ret' = "True" /\ current_player = c]_vars

\* C18: no call of make_move lowers a captured count; such a call that changes a
\* captured count is an accepted move; and an accepted move leaves the captured
\* count of the colour that moved as it was.
C18_CountsOnlyGrow ==
    [][ByMakeMove
           => /\ \A c \in Colors : captured_pieces'[c] >= captured_pieces[c]
              /\ captured_pieces' # captured_pieces => ret' = "True"
              /\ ret' = "True"
                     => captured_pieces'[current_player] = captured_pieces[current_player]]_vars

\* Square q is on the row or the column of square c.
OnLine(q, c) == q[1] = c[1] \/ q[2] = c[2]

\* C19: after an accepted move the origin is empty and the destination holds
\* the mover's piece; any other square either holds what it held, or held an
\* enemy piece, lies on the row or the column of the destination and is empty.
\* So no square off that row and column changes, the origin excepted, and no
\* empty square but the destination becomes occupied.
C19_FrameOfMove ==
    [][ret' = "True"
           => \A q \in Coords :
                 /\ q = Origin(move') => At(board_status', q) = "NONE"
                 /\ q = Dest(move') => At(board_status', q) = current_player
                 /\ q \notin {Origin(move'), Dest(move')}
                        => \/ At(board_status', q) = At(board_status, q)
                           \/ /\ At(board_status, q) = Opponent(current_player)
                              /\ At(board_status', q) = "NONE"
                              /\ OnLine(q, Dest(move'))]_vars

\* An accepted move has just emptied an enemy square on the row or column of
\* its destination, and left its origin empty.
C19_Witness ==
    /\ ret = "True" /\ Named(move)
    /\ At(board_status, Origin(move)) = "NONE"
    /\ \E q \in Coords :
          /\ OnLine(q, Dest(move))
          /\ At(move.board, q) = Opponent(move.color)
          /\ At(board_status, q) = "NONE"

====
